---- MODULE Spec2Model ----
(***************************************************************************)
(* The Z80 harness of rybot2 (src/src/main.rs): the Bus (memory + port     *)
(* I/O routed to a TMS9918A), and the z80_execute command body: load,      *)
(* disassemble, execute until halt, report registers, export the frame.    *)
(*                                                                         *)
(* The CPU (crate z80emu) and the VDP (crate tms9918a_emu) are external    *)
(* engines.  They are modelled for the instructions and port protocol the  *)
(* programs of this model can reach; the byte alphabet ProgBytes is closed *)
(* under execution (every byte a program can fetch as an opcode is one of  *)
(* the modelled opcodes).                                                  *)
(*                                                                         *)
(* The address space has its size: 65536 bytes, u16 addresses.  A byte     *)
(* vector (memory_vec, rom, an attachment) is kept as its runs of equal    *)
(* bytes, and so is the listing (runs of equal records); the operators     *)
(* vec_len, vec_at, push, .. give the length, the element at an index and  *)
(* the vector after a push of the vector so represented.                   *)
(***************************************************************************)
EXTENDS Integers, Sequences, FiniteSets, TLC

\* ---------------------------------------------------------------- bounds
\* Longest program drawn as an arbitrary byte string.
MaxLen == 3
\* Size of the video memory of the VDP: 16384 bytes on the chip.
VramSize == 16384
\* Number of port calls in the bus-level specification.
MaxCalls == 4

\* ------------------------------------------------------ program constants
\* Size of the buffer, [u8; 65536]; addresses are u16 and wrap at it.
Capacity == 65536
HaltOpcode == 118
PortMask == 255
VdpControlPort == 18
VdpDataPort == 16

\* The invocations of z80_execute that may be in flight.
Invs == {"a", "b"}

\* The opcodes modelled: NOP, HALT, LD A,n, JP nn, OUT (n),A, IN A,(n),
\* DJNZ d (which is also the data port number), LD (DE),A (which is also
\* the control port number).
ProgBytes == {0, HaltOpcode, 62, 195, 211, 219, VdpDataPort, VdpControlPort}

Min(x, y) == IF x <= y THEN x ELSE y

\* Saturation point of the executed-instruction counter.
StepCap == Capacity + 2

\* --------------------------------------------------------------- vectors
\* A vector is the sequence of its runs: x repeated n >= 1 times, two
\* adjacent runs holding different elements.
Run(x, n) == [x |-> x, n |-> n]

\* Vec::len.
RECURSIVE vec_len(_)
vec_len(v) == IF v = <<>> THEN 0 ELSE v[1].n + vec_len(Tail(v))

\* v[k], indices running from 0.
RECURSIVE vec_at(_, _)
vec_at(v, k) ==
  IF k < v[1].n THEN v[1].x ELSE vec_at(Tail(v), k - v[1].n)

\* Vec::push repeated n times with the same element.
push_n(v, x, n) ==
  IF n = 0 THEN v
  ELSE IF v # <<>> /\ v[Len(v)].x = x
       THEN [v EXCEPT ![Len(v)].n = @ + n]
       ELSE Append(v, Run(x, n))

\* Vec::push.
push(v, x) == push_n(v, x, 1)

\* The vector of the elements of a sequence.
RECURSIVE VecFrom(_, _)
VecFrom(s, acc) ==
  IF s = <<>> THEN acc ELSE VecFrom(Tail(s), push(acc, s[1]))

Vec(s) == VecFrom(s, <<>>)

\* One vector after the other.
RECURSIVE vec_cat(_, _)
vec_cat(u, w) ==
  IF w = <<>> THEN u ELSE vec_cat(push_n(u, w[1].x, w[1].n), Tail(w))

\* The first k elements, and the elements from index k on.
RECURSIVE vec_take(_, _)
vec_take(v, k) ==
  IF k = 0 \/ v = <<>> THEN <<>>
  ELSE IF k < v[1].n THEN <<Run(v[1].x, k)>>
       ELSE <<v[1]>> \o vec_take(Tail(v), k - v[1].n)

RECURSIVE vec_drop(_, _)
vec_drop(v, k) ==
  IF k = 0 \/ v = <<>> THEN v
  ELSE IF k < v[1].n THEN <<Run(v[1].x, v[1].n - k)>> \o Tail(v)
       ELSE vec_drop(Tail(v), k - v[1].n)

\* v[k] = x.
vec_set(v, k, x) ==
  vec_cat(push(vec_take(v, k), x), vec_drop(v, k + 1))

\* The elements from index k to index m - 1, as a sequence.
vec_slice(v, k, m) == [j \in 1..(m - k) |-> vec_at(v, k + j - 1)]

\* ------------------------------------------------------------------- VDP
\* TMS9918A::new(): registers and video memory cleared, no byte latched.
VdpNew ==
  [latch |-> -1, regs |-> [r \in 0..7 |-> 0], addr |-> 0, readbuf |-> 0,
   vram |-> <<Run(0, VramSize)>>, frame |-> <<>>]

\* write_control_port: the first byte of a pair is latched; the second
\* either writes a register (bit 7 set) or sets the video memory address
\* (read set-up, bit 6 clear, pre-fetches the read-ahead buffer).
VdpWriteControl(v, d) ==
  IF v.latch = -1 THEN [v EXCEPT !.latch = d]
  ELSE IF d >= 128
       THEN [v EXCEPT !.regs[d % 8] = v.latch, !.latch = -1]
       ELSE LET a == (((d % 64) * 256) + v.latch) % VramSize IN
            IF d >= 64
            THEN [v EXCEPT !.addr = a, !.latch = -1]
            ELSE [v EXCEPT !.addr = (a + 1) % VramSize,
                           !.readbuf = vec_at(v.vram, a), !.latch = -1]

\* write_data_port: store at the address, advance it, drop the latch.
VdpWriteData(v, d) ==
  [v EXCEPT !.vram = vec_set(@, v.addr, d), !.readbuf = d,
            !.addr = (v.addr + 1) % VramSize, !.latch = -1]

\* read_data_port: the byte returned is the read-ahead buffer.
VdpReadDataValue(v) == v.readbuf

VdpReadData(v) ==
  [v EXCEPT !.readbuf = vec_at(v.vram, v.addr),
            !.addr = (v.addr + 1) % VramSize, !.latch = -1]

VdpReadRegister(v, r) == v.regs[r]

\* update(): renders the frame from the registers and the video memory.
\* The rendering belongs to the VDP engine; the frame is kept as the pair
\* it is a function of.
VdpUpdate(v) == [v EXCEPT !.frame = <<v.regs, v.vram>>]

\* ------------------------------------------------------------------- Bus
\* Bus { vdp: TMS9918A::new(), vdp_used: false, rom }
BusNew(rom) == [vdp |-> VdpNew, vdp_used |-> FALSE, rom |-> rom]

\* write_io comparing the port without masking it to its low byte.
write_io_unmasked(bus, port, data) ==
  LET b1 == IF port = VdpControlPort
            THEN [bus EXCEPT !.vdp_used = TRUE,
                             !.vdp = VdpWriteControl(bus.vdp, data)]
            ELSE bus
      b2 == IF port = VdpDataPort
            THEN [b1 EXCEPT !.vdp_used = TRUE,
                            !.vdp = VdpWriteData(b1.vdp, data)]
            ELSE b1
  IN b2

\* Io::write_io: two independent tests of the masked port.
write_io(bus, port, data) ==
  LET masked_port == port % (PortMask + 1)
      b1 == IF masked_port = VdpControlPort
            THEN [bus EXCEPT !.vdp_used = TRUE,
                             !.vdp = VdpWriteControl(bus.vdp, data)]
            ELSE bus
      b2 == IF masked_port = VdpDataPort
            THEN [b1 EXCEPT !.vdp_used = TRUE,
                            !.vdp = VdpWriteData(b1.vdp, data)]
            ELSE b1
  IN b2

\* What write_io returns: (None, None), no break and no wait states.
write_io_ret == <<"None", "None">>

\* read_io marking the VDP used on a read of the control port too.
read_io_marks_control(bus, port) ==
  LET masked_port == port % (PortMask + 1) IN
  IF masked_port = VdpDataPort
  THEN [bus EXCEPT !.vdp_used = TRUE, !.vdp = VdpReadData(bus.vdp)]
  ELSE IF masked_port = VdpControlPort
       THEN [bus EXCEPT !.vdp_used = TRUE]
       ELSE bus

\* Io::read_io: the bus after the call.
read_io(bus, port) ==
  LET masked_port == port % (PortMask + 1) IN
  IF masked_port = VdpDataPort
  THEN [bus EXCEPT !.vdp_used = TRUE, !.vdp = VdpReadData(bus.vdp)]
  ELSE bus

\* Io::read_io: the byte returned.
read_io_value(bus, port) ==
  LET masked_port == port % (PortMask + 1) IN
  IF masked_port = VdpDataPort THEN VdpReadDataValue(bus.vdp) ELSE 0

\* Memory::read_debug: rom[addr], addresses running from 0.
read_debug(bus, addr) == vec_at(bus.rom, addr)

\* Memory::write_mem: rom[addr] = value.
write_mem(bus, addr, value) ==
  [bus EXCEPT !.rom = vec_set(@, addr, value)]

\* ------------------------------------------------------------------ load
\* load inserting the padding in front of the program.
load_pad_front(memory_vec) ==
  vec_cat(push_n(<<>>, HaltOpcode, Capacity - vec_len(memory_vec)),
          memory_vec)

\* 65536 - memory_vec.len() in usize: the subtraction overflows for a
\* program longer than the buffer.
pad_overflows(memory_vec) == vec_len(memory_vec) > Capacity

\* What the overflow does, by the build: with overflow checks the
\* subtraction panics; without them it wraps, and the loop pushes halt
\* bytes until the allocation fails and the process aborts.
OverflowOutcomes == {"panic", "abort"}

\* The padding loop of z80_execute: push the halt opcode
\* (capacity - len) times.  No value where the subtraction overflows.
load(memory_vec) ==
  CASE ~pad_overflows(memory_vec) ->
    push_n(memory_vec, HaltOpcode, Capacity - vec_len(memory_vec))

\* vec_to_array: the conversion succeeds exactly for a Vec of the array's
\* length (it panics otherwise).
vec_to_array_ok(v) == vec_len(v) = Capacity

\* -------------------------------------------------------------- commands
\* A text is a sequence of characters, each one its Unicode code point.
\* The digits hex::decode accepts, in the order of their values: 0-9 and
\* A-F, and a-f.
HexDigits ==
  <<48, 49, 50, 51, 52, 53, 54, 55, 56, 57, 65, 66, 67, 68, 69, 70>>
HexLower == <<97, 98, 99, 100, 101, 102>>

IsHex(c) ==
  (\E k \in 1..16 : HexDigits[k] = c) \/ (\E k \in 1..6 : HexLower[k] = c)

HexVal(c) ==
  IF \E k \in 1..16 : HexDigits[k] = c
  THEN (CHOOSE k \in 1..16 : HexDigits[k] = c) - 1
  ELSE (CHOOSE k \in 1..6 : HexLower[k] = c) + 9

\* args.rest().split_whitespace().collect::<String>(): the text without
\* its whitespace.
\* The characters with the Unicode property White_Space: U+0009-U+000D,
\* U+0020, U+0085, U+00A0, U+1680, U+2000-U+200A, U+2028, U+2029, U+202F,
\* U+205F, U+3000.
White_Space ==
  (9..13) \cup {32, 133, 160, 5760} \cup (8192..8202)
    \cup {8232, 8233, 8239, 8287, 12288}

split_whitespace(text) == SelectSeq(text, LAMBDA c : c \notin White_Space)

\* hex::decode: Err for an odd number of characters or a character that
\* is no hexadecimal digit (the unwrap then panics), else one byte per
\* two digits.
hex_decode_ok(t) ==
  /\ Len(t) % 2 = 0
  /\ \A k \in 1..Len(t) : IsHex(t[k])

hex_decode(t) ==
  [k \in 1..(Len(t) \div 2) |->
     (16 * HexVal(t[(2 * k) - 1])) + HexVal(t[2 * k])]

\* ------------------------------------------------------------------- CPU
\* The engine's reset state with AF = 0xFFFF, that is A = 0xFF.
Z80ResetOnes == [pc |-> 0, a |-> 255, bc |-> 0, de |-> 0, hl |-> 0]

\* Z80CMOS::default() and cpu.reset(): program counter 0, accumulator and
\* register pairs at their reset value.
Z80Reset == [pc |-> 0, a |-> 0, bc |-> 0, de |-> 0, hl |-> 0]

\* A displacement byte read as a signed number.
Signed(d) == IF d < 128 THEN d ELSE d - 256

\* Whether the value write_io returned asks execute_next to break.
WrIoBreaks == write_io_ret[1] # "None"

\* cpu.execute_next(&mut memory, &mut tsc, ..): one instruction.  The
\* result is the bus and the CPU after it, r = "Halt" for
\* Err(BreakCause::Halt), "WriteIo" for Err(BreakCause::WriteIo(..)) and
\* "Ok" otherwise, and what the instruction did (jump taken, memory
\* written, port accessed), which the history variables record.
execute_next(bus, c) ==
  LET op == read_debug(bus, c.pc)
      n1 == read_debug(bus, (c.pc + 1) % Capacity)
      n2 == read_debug(bus, (c.pc + 2) % Capacity)
      none == [jump |-> FALSE, memw |-> FALSE, io |-> "none", port |-> 0]
  IN CASE op = HaltOpcode ->
            [bus |-> bus, cpu |-> [c EXCEPT !.pc = (c.pc + 1) % Capacity],
             r |-> "Halt", ev |-> none]
       [] op = 0 ->
            [bus |-> bus, cpu |-> [c EXCEPT !.pc = (c.pc + 1) % Capacity],
             r |-> "Ok", ev |-> none]
       [] op = 62 ->
            [bus |-> bus,
             cpu |-> [c EXCEPT !.pc = (c.pc + 2) % Capacity, !.a = n1],
             r |-> "Ok", ev |-> none]
       [] op = 195 ->
            [bus |-> bus,
             cpu |-> [c EXCEPT !.pc = (n1 + (256 * n2)) % Capacity],
             r |-> "Ok", ev |-> [none EXCEPT !.jump = TRUE]]
       [] op = 211 ->
            [bus |-> write_io(bus, (c.a * 256) + n1, c.a),
             cpu |-> [c EXCEPT !.pc = (c.pc + 2) % Capacity],
             r |-> IF WrIoBreaks THEN "WriteIo" ELSE "Ok",
             ev |-> [none EXCEPT !.io = "out", !.port = (c.a * 256) + n1]]
       [] op = 219 ->
            [bus |-> read_io(bus, (c.a * 256) + n1),
             cpu |-> [c EXCEPT !.pc = (c.pc + 2) % Capacity,
                               !.a = read_io_value(bus, (c.a * 256) + n1)],
             r |-> "Ok",
             ev |-> [none EXCEPT !.io = "in", !.port = (c.a * 256) + n1]]
       [] op = VdpDataPort ->
            LET b == ((c.bc \div 256) - 1) % 256
                bc == (b * 256) + (c.bc % 256)
            IN IF b # 0
               THEN [bus |-> bus,
                     cpu |-> [c EXCEPT !.bc = bc,
                                !.pc = (c.pc + 2 + Signed(n1)) % Capacity],
                     r |-> "Ok", ev |-> [none EXCEPT !.jump = TRUE]]
               ELSE [bus |-> bus,
                     cpu |-> [c EXCEPT !.bc = bc,
                                       !.pc = (c.pc + 2) % Capacity],
                     r |-> "Ok", ev |-> none]
       [] op = VdpControlPort ->
            [bus |-> write_mem(bus, c.de % Capacity, c.a),
             cpu |-> [c EXCEPT !.pc = (c.pc + 1) % Capacity],
             r |-> "Ok", ev |-> [none EXCEPT !.memw = TRUE]]

\* The match of the execute loop: Err(BreakCause::Halt) breaks, every
\* other result asks for the next instruction.
loop_breaks(r) == r = "Halt"

\* ----------------------------------------------------------- disassembly
\* A decoder that consumes no byte for a NOP.
InstrLenZero(op) ==
  CASE op = 0 -> 0
    [] op \in {HaltOpcode, VdpControlPort} -> 1
    [] op \in {62, 211, 219, VdpDataPort} -> 2
    [] op = 195 -> 3

\* Length in bytes of the instruction an opcode starts.
InstrLen(op) ==
  CASE op \in {0, HaltOpcode, VdpControlPort} -> 1
    [] op \in {62, 211, 219, VdpDataPort} -> 2
    [] op = 195 -> 3

\* The bytes of the record decoded at pos (cut at the end of the buffer).
DisasmCode(rom, pos) ==
  vec_slice(rom, pos, Min(pos + InstrLen(vec_at(rom, pos)), vec_len(rom)))

\* Whether the instruction at pos runs past the end of the buffer.
DisasmTruncated(rom, pos) ==
  pos + InstrLen(vec_at(rom, pos)) > vec_len(rom)

\* The buffer after disasm_memory decoded the record at pos: the decoder
\* only reads the slice it is handed (as &mut memory.rom).
disasm_rom(rom, pos) == rom

\* What disasm_memory returns for each way the disassembly ends: the
\* closure's Err(()) when it stopped the decoder, Ok(()) at the end of the
\* buffer, and either of them at a record the decoder cannot complete.
DisasmResults(ended) ==
  CASE ended = "stop" -> {"Err"}
    [] ended = "end" -> {"Ok"}
    [] ended = "error" -> {"Ok", "Err"}
    [] ended = "none" -> {"Ok"}

\* The result of disasm_memory passed on with `?`: an Err ends the
\* command.
propagate(result) == IF result = "Err" THEN "return" ELSE "continue"

\* let _ = disasm_memory(..): the result is dropped, the command goes on
\* to the send of the listing whatever it was.
discard(result) == "continue"

\* A closure whose halt streak is never reset by another record.
callback_no_reset(flag, code) ==
  IF code = <<HaltOpcode>>
  THEN [flag |-> TRUE, stop |-> flag = TRUE]
  ELSE [flag |-> flag, stop |-> FALSE]

\* The closure handed to disasm_memory: with the halt-streak flag and the
\* record's bytes, the new flag and whether it returns Err(()).
callback(flag, code) ==
  IF code = <<HaltOpcode>>
  THEN [flag |-> TRUE, stop |-> flag = TRUE]
  ELSE [flag |-> FALSE, stop |-> FALSE]

\* ---------------------------------------------------------------- export
\* The register pairs read after the loop, in the order of the text.
cpu_regs(c) == <<c.a, c.bc, c.de, c.hl>>

\* The eight VDP registers in the order of the text: 0 4 1 5 2 6 3 7.
vdp_regs(v) ==
  <<VdpReadRegister(v, 0), VdpReadRegister(v, 4), VdpReadRegister(v, 1),
    VdpReadRegister(v, 5), VdpReadRegister(v, 2), VdpReadRegister(v, 6),
    VdpReadRegister(v, 3), VdpReadRegister(v, 7)>>

\* An export that is never skipped.
export_skipped_never(bus) == FALSE

\* if memory.vdp_used == false { Ok(()) }: the command ends after the CPU
\* registers.
export_skipped(bus) == bus.vdp_used = FALSE

\* The image built from the frame: its samples, scaled 4 times.
render(v) == <<4, v.frame>>

Msg(kind, payload) == [kind |-> kind, payload |-> payload]

\* send_msg: the text is handed to the channel; when the delivery fails
\* the error is printed and the command goes on.
send_msg(o, m, ok) ==
  Append(o, [kind |-> m.kind, payload |-> m.payload, delivered |-> ok])

\* send_file: the same for a file.
send_file(o, m, ok) ==
  Append(o, [kind |-> m.kind, payload |-> m.payload, delivered |-> ok])

\* What was handed to the channel, delivered or not.
Contents(o) ==
  [n \in 1..Len(o) |-> [kind |-> o[n].kind, payload |-> o[n].payload]]

\* ----------------------------------------------------------------- state
VARIABLES
  st,          \* per invocation: where z80_execute stands
  input,       \* per invocation: the command message (text, attachment)
  prog,        \* per invocation: memory_vec as passed in
  memory,      \* per invocation: the Bus (vdp, vdp_used, rom)
  cpu,         \* per invocation: the Z80
  dis,         \* per invocation: disassembly cursor and halt-streak flag
  listing,     \* per invocation: the records of disassembly_string
  pixel_buf,   \* per invocation: the image built for export
  out,         \* per invocation: what was handed to the channel, in order
  res,         \* per invocation: how the command ended
  fail,        \* per invocation: the export step the environment failed
  steps,       \* history: non-halt instructions executed (saturating)
  hist,        \* history: what the execution has done so far
  bus,         \* bus-level specification: a Bus driven call by call
  last_read,   \* bus-level specification: what the last read_io returned
  standalone,  \* bus-level specification: a VDP driven directly
  ncalls       \* bus-level specification: calls made

vars == <<st, input, prog, memory, cpu, dis, listing, pixel_buf, out, res, fail,
          steps, hist, bus, last_read, standalone, ncalls>>

busvars == <<bus, last_read, standalone, ncalls>>

\* ---------------------------------------------------------------- inputs
ByteStrings == UNION {[1..n -> ProgBytes] : n \in 0..MaxLen}

\* The programs of the scenarios: LD A,5; HALT and JP 0.
Scenarios == {<<62, 5, HaltOpcode>>, <<195, 0, 0>>}

\* The programs typed as text.
Programs == ByteStrings \cup Scenarios

\* Programs that fill the whole buffer with one byte: NOP, HALT.
FullPrograms == {<<Run(b, Capacity)>> : b \in {0, HaltOpcode}}

\* A program one byte longer than the buffer.
OverLong == {<<Run(0, Capacity + 1)>>}

\* A program of full length that jumps to a halt and ends in the first
\* byte of a two-byte instruction, which the end of the buffer cuts:
\* JP Capacity - 2; NOP ..; HALT; 3E.
CutRecord ==
  <<Run(195, 1), Run((Capacity - 2) % 256, 1),
    Run((Capacity - 2) \div 256, 1), Run(0, Capacity - 5),
    Run(HaltOpcode, 1), Run(62, 1)>>

\* The programs attached as files.
Files == FullPrograms \cup OverLong \cup {CutRecord}

\* The text a user types for a program: two upper-case digits per byte.
HexText(p) ==
  [k \in 1..(2 * Len(p)) |->
     IF k % 2 = 1 THEN HexDigits[(p[(k + 1) \div 2] \div 16) + 1]
     ELSE HexDigits[(p[k \div 2] % 16) + 1]]

\* The message of a z80 command with its text, of a z80file command with
\* its attachment or without one, and no message.
TextCommand(t) ==
  [cmd |-> "z80", text |-> t, attached |-> FALSE, file |-> <<>>]
FileCommand(f) ==
  [cmd |-> "z80file", text |-> <<>>, attached |-> TRUE, file |-> f]
BareFileCommand ==
  [cmd |-> "z80file", text |-> <<>>, attached |-> FALSE, file |-> <<>>]
NoCommand ==
  [cmd |-> "none", text |-> <<>>, attached |-> FALSE, file |-> <<>>]

\* Texts with whitespace between the bytes and with lower-case digits,
\* and texts that are not hexadecimal: an odd number of digits ("3E 0"),
\* a character that is no digit ("zz").
SpacedTexts ==
  {<<51, 69, 32, 48, 53, 32, 55, 54>>,       \* "3E 05 76"
   <<51, 101, 48, 53, 55, 54>>,              \* "3e0576"
   <<51, 69, 9, 48, 53, 10, 55, 54>>,        \* tab, line feed
   <<51, 69, 11, 48, 53, 160, 55, 54, 12288>>} \* U+000B, U+00A0, U+3000
BadTexts == {<<51, 69, 32, 48>>, <<122, 122>>}

\* The commands: the short programs typed as text, the long ones
\* attached as files.
Commands ==
  {TextCommand(HexText(p)) : p \in Programs}
    \cup {TextCommand(t) : t \in SpacedTexts \cup BadTexts}
    \cup {FileCommand(f) : f \in Files}
    \cup {BareFileCommand}

\* Ports and data bytes of the bus-level specification.
Ports == {VdpDataPort, VdpControlPort, 256 + VdpDataPort,
          (62 * 256) + VdpControlPort, 17, 0}
DataBytes == {0, 5, 64, 128}

HistNew ==
  [wrote_vdp |-> FALSE, read_data |-> FALSE,
   io |-> FALSE, memw |-> FALSE,
   started |-> FALSE, ref |-> [bus |-> BusNew(<<>>), cpu |-> Z80Reset]]

\* The reference run of a program: the CPU at reset on the loaded image,
\* advanced by one instruction at every turn of the loop.  It never sees
\* the disassembly.
RefStart(p) == [bus |-> BusNew(load(p)), cpu |-> Z80Reset]

InitCommon ==
  /\ memory = [i \in Invs |-> BusNew(<<>>)]
  /\ cpu = [i \in Invs |-> Z80Reset]
  /\ dis = [i \in Invs |-> [pos |-> 0, flag |-> FALSE, ended |-> "none"]]
  /\ listing = [i \in Invs |-> <<>>]
  /\ pixel_buf = [i \in Invs |-> <<>>]
  /\ out = [i \in Invs |-> <<>>]
  /\ res = [i \in Invs |-> "none"]
  /\ fail = [i \in Invs |-> "none"]
  /\ steps = [i \in Invs |-> 0]
  /\ hist = [i \in Invs |-> HistNew]
  /\ bus = BusNew(<<>>)
  /\ last_read = 0
  /\ standalone = [vdp |-> VdpNew, ret |-> 0, touched |-> FALSE]
  /\ ncalls = 0

\* One command: the message of invocation "a" has been received.
Init ==
  /\ \E c \in Commands :
       input = [i \in Invs |-> IF i = "a" THEN c ELSE NoCommand]
  /\ prog = [i \in Invs |-> <<>>]
  /\ st = [i \in Invs |-> IF i = "a" THEN "Received" ELSE "Idle"]
  /\ InitCommon

\* The states in which an invocation is over: it returned, it panicked
\* (in the command, in the load, in the save), or the process aborted.
Finished == {"Done", "Panicked", "LoadPanicked", "CmdPanicked", "Aborted"}

\* One CPU and one Bus shared by every invocation (statics).
local_shared(i) == "a"

\* let mut tsc, let mut cpu, let mut memory: the clock, the CPU and the Bus
\* an invocation works on are locals of that call of z80_execute.
local(i) == i

\* --------------------------------------------------------------- actions
\* Lines 525-530: the z80 command decodes its text and calls z80_execute;
\* hex::decode(..).unwrap() panics on a text that is not hexadecimal.
z80(i) ==
  /\ st[i] = "Received"
  /\ input[i].cmd = "z80"
  /\ LET t == split_whitespace(input[i].text) IN
     IF hex_decode_ok(t)
     THEN /\ prog' = [prog EXCEPT ![i] = Vec(hex_decode(t))]
          /\ st' = [st EXCEPT ![i] = "Start"]
          /\ res' = res
     ELSE /\ prog' = prog
          /\ st' = [st EXCEPT ![i] = "CmdPanicked"]
          /\ res' = [res EXCEPT ![i] = "Panic"]
  /\ UNCHANGED <<input, memory, cpu, dis, listing, pixel_buf, out, fail,
                 steps, hist, busvars>>

\* Line 535: the z80file command takes msg.attachments[0], which panics
\* on a message without attachment, and starts the download.
z80file(i) ==
  /\ st[i] = "Received"
  /\ input[i].cmd = "z80file"
  /\ IF input[i].attached
     THEN /\ st' = [st EXCEPT ![i] = "Downloading"]
          /\ res' = res
     ELSE /\ st' = [st EXCEPT ![i] = "CmdPanicked"]
          /\ res' = [res EXCEPT ![i] = "Panic"]
  /\ UNCHANGED <<input, prog, memory, cpu, dis, listing, pixel_buf, out,
                 fail, steps, hist, busvars>>

\* Lines 535-537: download().await.unwrap() yields the attachment's bytes
\* or panics when the download failed; z80_execute is called.
download(i) ==
  /\ st[i] = "Downloading"
  /\ \E ok \in BOOLEAN :
       IF ok
       THEN /\ prog' = [prog EXCEPT ![i] = input[i].file]
            /\ st' = [st EXCEPT ![i] = "Start"]
            /\ res' = res
       ELSE /\ prog' = prog
            /\ st' = [st EXCEPT ![i] = "CmdPanicked"]
            /\ res' = [res EXCEPT ![i] = "Panic"]
  /\ UNCHANGED <<input, memory, cpu, dis, listing, pixel_buf, out, fail,
                 steps, hist, busvars>>

\* Lines 541-549: the CPU and clock are created, the program is padded
\* and moved into the Bus.  For a program longer than the buffer the
\* subtraction of line 545 overflows: the invocation panics, or the
\* process aborts and every invocation in flight ends with it.
Load(i) ==
  /\ st[i] = "Start"
  /\ IF pad_overflows(prog[i])
     THEN /\ memory' = memory
          /\ \E o \in OverflowOutcomes :
               IF o = "panic"
               THEN /\ st' = [st EXCEPT ![i] = "LoadPanicked"]
                    /\ res' = [res EXCEPT ![i] = "Panic"]
               ELSE /\ st' = [j \in Invs |->
                              IF st[j] \in Finished \cup {"Idle"}
                              THEN st[j] ELSE "Aborted"]
                    /\ res' = [j \in Invs |->
                               IF st[j] \in Finished \cup {"Idle"}
                               THEN res[j] ELSE "Abort"]
     ELSE LET v == load(prog[i]) IN
          IF vec_to_array_ok(v)
          THEN /\ memory' = [memory EXCEPT ![local(i)] = BusNew(v)]
               /\ st' = [st EXCEPT ![i] = "Loaded"]
               /\ res' = res
          ELSE /\ memory' = memory
               /\ st' = [st EXCEPT ![i] = "LoadPanicked"]
               /\ res' = [res EXCEPT ![i] = "Panic"]
  /\ cpu' = [cpu EXCEPT ![local(i)] = Z80Reset]
  /\ dis' = [dis EXCEPT ![i] = [pos |-> 0, flag |-> FALSE,
                                 ended |-> "none"]]
  /\ listing' = [listing EXCEPT ![i] = <<>>]
  /\ UNCHANGED <<input, prog, pixel_buf, out, fail, steps, hist, busvars>>

\* Lines 553-567: disasm_memory decodes one record and hands it to the
\* closure.  At a record cut by the end of the buffer the decoder either
\* hands over what is there or ends without a record.
DisasmStep(i) ==
  /\ st[i] = "Loaded"
  /\ LET rom == memory[local(i)].rom
         pos == dis[i].pos
         code == DisasmCode(rom, pos)
         cb == callback(dis[i].flag, code)
         next == pos + Len(code)
     IN \E emit \in BOOLEAN :
          LET ended == IF ~emit THEN "error"
                       ELSE IF cb.stop THEN "stop"
                       ELSE IF next >= vec_len(rom) THEN "end"
                       ELSE "none"
          IN
          /\ emit \/ DisasmTruncated(rom, pos)
          /\ IF emit
             THEN /\ listing' = [listing EXCEPT ![i] = push(@, code)]
                  /\ dis' = [dis EXCEPT ![i] =
                       [pos |-> next, flag |-> cb.flag, ended |-> ended]]
             ELSE /\ listing' = listing
                  /\ dis' = [dis EXCEPT ![i].ended = ended]
          /\ \E result \in DisasmResults(ended) :
               IF ended = "none"
               THEN UNCHANGED <<st, res>>
               ELSE IF discard(result) = "continue"
               THEN /\ st' = [st EXCEPT ![i] = "Disassembled"]
                    /\ res' = res
               ELSE /\ st' = [st EXCEPT ![i] = "Done"]
                    /\ res' = [res EXCEPT ![i] = "Err"]
          /\ memory' = [memory EXCEPT ![local(i)].rom = disasm_rom(@, pos)]
  /\ UNCHANGED <<input, prog, cpu, pixel_buf, out, fail, steps, hist,
                 busvars>>

\* Lines 569-570: the listing is sent; the command is suspended in the
\* send.
SendDisasm(i) ==
  /\ st[i] = "Disassembled"
  /\ \E ok \in BOOLEAN :
       out' = [out EXCEPT ![i] =
                 send_msg(@, Msg("disassembly", listing[i]), ok)]
  /\ st' = [st EXCEPT ![i] = "ListingSent"]
  /\ UNCHANGED <<input, prog, memory, cpu, dis, listing, pixel_buf, res,
                 fail, steps, hist, busvars>>

\* Lines 571-573: resumed after the send, the command resets the CPU.
Reset(i) ==
  /\ st[i] = "ListingSent"
  /\ cpu' = [cpu EXCEPT ![local(i)] = Z80Reset]
  /\ st' = [st EXCEPT ![i] = "Running"]
  /\ UNCHANGED <<input, prog, memory, dis, listing, pixel_buf, out, res,
                 fail, steps, hist, busvars>>

\* Lines 574-580: one turn of the loop.
ExecuteNext(i) ==
  /\ st[i] = "Running"
  /\ LET x == execute_next(memory[local(i)], cpu[local(i)])
         vdp_port == (x.ev.port % 256) \in {VdpControlPort, VdpDataPort}
     IN /\ memory' = [memory EXCEPT ![local(i)] = x.bus]
        /\ cpu' = [cpu EXCEPT ![local(i)] = x.cpu]
        /\ st' = [st EXCEPT ![i] =
                    IF loop_breaks(x.r) THEN "Halted" ELSE "Running"]
        /\ steps' = [steps EXCEPT ![i] =
                       IF x.r = "Halt" THEN @ ELSE Min(@ + 1, StepCap)]
        /\ hist' = [hist EXCEPT ![i] =
             [wrote_vdp |-> @.wrote_vdp \/ (x.ev.io = "out" /\ vdp_port),
              read_data |-> @.read_data \/
                  (x.ev.io = "in" /\ (x.ev.port % 256) = VdpDataPort),
              io |-> @.io \/ x.ev.io # "none",
              memw |-> @.memw \/ x.ev.memw,
              started |-> TRUE,
              ref |-> LET r0 == IF @.started THEN @.ref
                                ELSE RefStart(prog[i])
                          y == execute_next(r0.bus, r0.cpu)
                      IN [bus |-> y.bus, cpu |-> y.cpu]]]
  /\ UNCHANGED <<input, prog, dis, listing, pixel_buf, out, res, fail, busvars>>

\* Lines 582-596: the VDP is updated, the CPU registers are read and sent.
SendCpuRegs(i) ==
  /\ st[i] = "Halted"
  /\ memory' = [memory EXCEPT ![local(i)].vdp = VdpUpdate(@)]
  /\ \E ok \in BOOLEAN :
       out' = [out EXCEPT ![i] =
                 send_msg(@, Msg("cpu_regs", cpu_regs(cpu[local(i)])), ok)]
  /\ st' = [st EXCEPT ![i] = "CpuSent"]
  /\ UNCHANGED <<input, prog, cpu, dis, listing, pixel_buf, res, fail, steps, hist,
                 busvars>>

\* Lines 605-606: the VDP was not used, the command returns Ok(()).
FinishNoVdp(i) ==
  /\ st[i] = "CpuSent"
  /\ export_skipped(memory[local(i)])
  /\ st' = [st EXCEPT ![i] = "Done"]
  /\ res' = [res EXCEPT ![i] = "Ok"]
  /\ UNCHANGED <<input, prog, memory, cpu, dis, listing, pixel_buf, out, fail,
                 steps, hist, busvars>>

\* Lines 598-608: the VDP registers are sent.
SendVdpRegs(i) ==
  /\ st[i] = "CpuSent"
  /\ ~export_skipped(memory[local(i)])
  /\ \E ok \in BOOLEAN :
       out' = [out EXCEPT ![i] =
                 send_msg(@, Msg("vdp_regs", vdp_regs(memory[local(i)].vdp)),
                          ok)]
  /\ st' = [st EXCEPT ![i] = "VdpSent"]
  /\ UNCHANGED <<input, prog, memory, cpu, dis, listing, pixel_buf, res, fail,
                 steps, hist, busvars>>

\* Lines 610-622: the temporary file is created (an error returns
\* through ?), the image is built and scaled.
TempFile(i) ==
  /\ st[i] = "VdpSent"
  /\ \E ok \in BOOLEAN :
       IF ok
       THEN /\ pixel_buf' = [pixel_buf EXCEPT ![i] = render(memory[local(i)].vdp)]
            /\ st' = [st EXCEPT ![i] = "Rendered"]
            /\ UNCHANGED <<res, fail>>
       ELSE /\ st' = [st EXCEPT ![i] = "Done"]
            /\ res' = [res EXCEPT ![i] = "Err"]
            /\ fail' = [fail EXCEPT ![i] = "tempfile"]
            /\ UNCHANGED pixel_buf
  /\ UNCHANGED <<input, prog, memory, cpu, dis, listing, out, steps, hist, busvars>>

\* Lines 624-631: the path of the file, and the send of a text: the
\* announcement of the image, or without a path the failure.  The command
\* is suspended in the send.
FilePath(i) ==
  /\ st[i] = "Rendered"
  /\ \E ok, sent \in BOOLEAN :
       IF ok
       THEN /\ out' = [out EXCEPT ![i] =
                 send_msg(@, Msg("text", <<"TMS9918A video output:">>), sent)]
            /\ st' = [st EXCEPT ![i] = "Saving"]
            /\ UNCHANGED <<res, fail>>
       ELSE /\ out' = [out EXCEPT ![i] = send_msg(@, Msg("text",
                 <<"Failed to get file path of image buffer for emulated TMS9918A">>),
                 sent)]
            /\ st' = [st EXCEPT ![i] = "NoPathSent"]
            /\ fail' = [fail EXCEPT ![i] = "path"]
            /\ res' = res
  /\ UNCHANGED <<input, prog, memory, cpu, dis, listing, pixel_buf, steps, hist,
                 busvars>>

\* Line 628: resumed after the send of the failure, the command returns
\* Ok(()).
ReturnNoPath(i) ==
  /\ st[i] = "NoPathSent"
  /\ st' = [st EXCEPT ![i] = "Done"]
  /\ res' = [res EXCEPT ![i] = "Ok"]
  /\ UNCHANGED <<input, prog, memory, cpu, dis, listing, pixel_buf, out,
                 fail, steps, hist, busvars>>

\* Line 633: pixel_buf.save(file_path).unwrap().
Save(i) ==
  /\ st[i] = "Saving"
  /\ \E ok \in BOOLEAN :
       IF ok
       THEN /\ st' = [st EXCEPT ![i] = "Saved"]
            /\ UNCHANGED <<res, fail>>
       ELSE /\ st' = [st EXCEPT ![i] = "Panicked"]
            /\ res' = [res EXCEPT ![i] = "Panic"]
            /\ fail' = [fail EXCEPT ![i] = "save"]
  /\ UNCHANGED <<input, prog, memory, cpu, dis, listing, pixel_buf, out, steps,
                 hist, busvars>>

\* Lines 634-635: the file is sent; the command is suspended in the send.
SendFile(i) ==
  /\ st[i] = "Saved"
  /\ \E ok \in BOOLEAN :
       out' = [out EXCEPT ![i] = send_file(@, Msg("image", pixel_buf[i]), ok)]
  /\ st' = [st EXCEPT ![i] = "FileSent"]
  /\ UNCHANGED <<input, prog, memory, cpu, dis, listing, pixel_buf, res,
                 fail, steps, hist, busvars>>

\* Line 637: resumed after the send of the file, the command returns
\* Ok(()).
ReturnOk(i) ==
  /\ st[i] = "FileSent"
  /\ st' = [st EXCEPT ![i] = "Done"]
  /\ res' = [res EXCEPT ![i] = "Ok"]
  /\ UNCHANGED <<input, prog, memory, cpu, dis, listing, pixel_buf, out,
                 fail, steps, hist, busvars>>

Next ==
  \E i \in Invs :
    \/ z80(i)
    \/ z80file(i)
    \/ download(i)
    \/ Load(i)
    \/ DisasmStep(i)
    \/ SendDisasm(i)
    \/ Reset(i)
    \/ ExecuteNext(i)
    \/ SendCpuRegs(i)
    \/ FinishNoVdp(i)
    \/ SendVdpRegs(i)
    \/ TempFile(i)
    \/ FilePath(i)
    \/ ReturnNoPath(i)
    \/ Save(i)
    \/ SendFile(i)
    \/ ReturnOk(i)

Spec == Init /\ [][Next]_vars

\* ------------------------------------------------ concurrent invocations
\* Programs of the two-invocation specification: HALT; LD A,n; OUT to the
\* data port; IN from the data port; OUT to the control port; LD (DE),A;
\* IN from an unmapped port.
ConcPrograms ==
  {<<HaltOpcode>>, <<62, 16, HaltOpcode>>, <<62, 62, 211, VdpDataPort>>,
   <<219, VdpDataPort>>, <<211, VdpControlPort>>, <<62, 62, VdpControlPort>>,
   <<219, 0>>}

\* The commands of the two-invocation specification: those programs as
\* text, and the attachment longer than the buffer.
ConcCommands ==
  {TextCommand(HexText(p)) : p \in ConcPrograms}
    \cup {FileCommand(f) : f \in OverLong}

\* Two commands in flight, each with its own message.
InitConc ==
  /\ input \in [Invs -> ConcCommands]
  /\ prog = [i \in Invs |-> <<>>]
  /\ st = [i \in Invs |-> "Received"]
  /\ InitCommon

SpecConc == InitConc /\ [][Next]_vars

\* ------------------------------------------------------------- bus level
\* The kind of a port: what the low byte selects.
MappedTo(port) ==
  IF port % 256 = VdpControlPort THEN "control"
  ELSE IF port % 256 = VdpDataPort THEN "data" ELSE "none"

\* A call of write_io on the Bus; the standalone VDP receives the write
\* only when the port is mapped to it.
BusWrite ==
  /\ ncalls < MaxCalls
  /\ \E port \in Ports, data \in DataBytes :
       /\ bus' = write_io(bus, port, data)
       /\ standalone' =
            CASE MappedTo(port) = "control" ->
                   [standalone EXCEPT !.vdp = VdpWriteControl(@, data),
                                      !.touched = TRUE]
              [] MappedTo(port) = "data" ->
                   [standalone EXCEPT !.vdp = VdpWriteData(@, data),
                                      !.touched = TRUE]
              [] OTHER -> standalone
  /\ ncalls' = ncalls + 1
  /\ UNCHANGED <<st, input, prog, memory, cpu, dis, listing, pixel_buf, out, res,
                 fail, steps, hist, last_read>>

\* A call of read_io on the Bus; the standalone VDP is read only when the
\* port is mapped to its data port, and 0 is expected otherwise.
BusRead ==
  /\ ncalls < MaxCalls
  /\ \E port \in Ports :
       /\ bus' = read_io(bus, port)
       /\ last_read' = read_io_value(bus, port)
       /\ standalone' =
            IF MappedTo(port) = "data"
            THEN [vdp |-> VdpReadData(standalone.vdp),
                  ret |-> VdpReadDataValue(standalone.vdp),
                  touched |-> TRUE]
            ELSE [standalone EXCEPT !.ret = 0]
  /\ ncalls' = ncalls + 1
  /\ UNCHANGED <<st, input, prog, memory, cpu, dis, listing, pixel_buf, out, res,
                 fail, steps, hist>>

InitBus ==
  /\ input = [i \in Invs |-> NoCommand]
  /\ prog = [i \in Invs |-> <<>>]
  /\ st = [i \in Invs |-> "Idle"]
  /\ InitCommon

NextBus == BusWrite \/ BusRead

SpecBus == InitBus /\ [][NextBus]_vars

\* ================================================================ claims
HasMsg(i, kind) == \E n \in 1..Len(out[i]) : out[i][n].kind = kind

\* The states of an invocation whose execute loop has seen the halt.
AfterHalt ==
  {"Halted", "CpuSent", "VdpSent", "Rendered", "NoPathSent", "Saving",
   "Saved", "FileSent", "Done", "Panicked"}

\* The invocation is over: it returned, or it panicked.
Ended(i) == st[i] \in Finished

\* ---------------------------------------------------------------- C1
\* C1: for every program of at most Capacity bytes, the buffer the Bus is
\* built with has exactly Capacity bytes, starts with the program's bytes
\* in order, and holds the halt opcode at every index from the program's
\* length to the end.
C1_LoadPadsWithHalt ==
  \A i \in Invs :
    st[i] \in {"Loaded", "Disassembled", "ListingSent"} =>
      LET rom == memory[i].rom
          len == vec_len(prog[i])
      IN
      /\ vec_len(rom) = Capacity
      /\ vec_take(rom, len) = prog[i]
      /\ vec_drop(rom, len) = push_n(<<>>, HaltOpcode, Capacity - len)

\* A two-byte program without a halt has been loaded and padded.
C1_Witness ==
  \E i \in Invs :
    /\ st[i] = "Loaded"
    /\ prog[i] = Vec(<<62, 0>>)
    /\ vec_len(memory[i].rom) = Capacity
    /\ vec_slice(memory[i].rom, 0, 5) =
         <<62, 0, HaltOpcode, HaltOpcode, HaltOpcode>>
    /\ vec_at(memory[i].rom, Capacity - 1) = HaltOpcode

\* ---------------------------------------------------------------- C2
\* C2 as stated: the number of non-halt instructions executed never
\* exceeds the capacity.
C2_Original == \A i \in Invs : steps[i] <= Capacity

\* The program C3 00 00 (JP 0) is still in the loop after more non-halt
\* instructions than the buffer has bytes.
C2_Witness ==
  \E i \in Invs :
    /\ st[i] = "Running"
    /\ prog[i] = Vec(<<195, 0, 0>>)
    /\ steps[i] > Capacity
    /\ cpu[i].pc = 0

\* ---------------------------------------------------------------- C3
\* C3 as stated: a program that has performed no write_io to a VDP port
\* has vdp_used false at halt and produces no image, whatever it read.
C3_Original ==
  \A i \in Invs :
    (st[i] \in AfterHalt /\ ~hist[i].wrote_vdp) =>
      (memory[i].vdp_used = FALSE /\ ~HasMsg(i, "image"))

\* C3 amended: a program that has performed no write_io to a VDP port and
\* no read_io of the VDP data port has vdp_used false at halt and
\* produces no image.
C3_NoVdpAccessNoImage ==
  \A i \in Invs :
    (st[i] \in AfterHalt /\ ~hist[i].wrote_vdp /\ ~hist[i].read_data) =>
      (memory[i].vdp_used = FALSE /\ ~HasMsg(i, "image"))

\* An invocation that accessed ports, none of them a VDP write or a data
\* port read, has returned without the VDP marked used.
C3_Witness ==
  \E i \in Invs :
    /\ st[i] = "Done"
    /\ hist[i].io
    /\ ~hist[i].wrote_vdp
    /\ ~hist[i].read_data
    /\ memory[i].vdp_used = FALSE

\* ---------------------------------------------------------------- C5
\* C5 as stated: every invocation that reached the halt has sent the CPU
\* register text and the VDP register text.
C5_Original ==
  \A i \in Invs :
    (Ended(i) /\ st[i] \in AfterHalt) =>
      (HasMsg(i, "cpu_regs") /\ HasMsg(i, "vdp_regs"))

\* C5 amended: after the halt the CPU register text (A, BC, DE, HL) is
\* sent first.  The VDP register text (eight registers) is sent only when
\* vdp_used is set, directly after the CPU register text and before any
\* step of the export; an invocation whose vdp_used is not set returns
\* after the CPU register text alone.  An image is sent only when
\* vdp_used is set.  Stated of every state, whether or not the invocation
\* gets to return.
C5_DumpsSent ==
  \A i \in Invs :
    LET o == out[i] IN
    /\ st[i] \in (AfterHalt \ {"Halted"}) =>
         \E n \in 1..Len(o) :
           /\ o[n].kind = "cpu_regs"
           /\ o[n].payload = cpu_regs(cpu[i])
    /\ \A n \in 1..Len(o) :
         o[n].kind = "vdp_regs" =>
           /\ memory[i].vdp_used
           /\ Len(o[n].payload) = 8
           /\ n > 1
           /\ o[n - 1].kind = "cpu_regs"
    /\ st[i] \in {"VdpSent", "Rendered", "NoPathSent", "Saving", "Saved",
                  "FileSent", "Panicked"} => HasMsg(i, "vdp_regs")
    /\ st[i] = "Done" => (HasMsg(i, "vdp_regs") <=> memory[i].vdp_used)
    /\ HasMsg(i, "image") => (memory[i].vdp_used /\ HasMsg(i, "vdp_regs"))

\* An invocation has returned with the CPU registers sent and, the VDP
\* not having been used, no VDP registers.
C5_Witness ==
  \E i \in Invs :
    /\ st[i] = "Done"
    /\ ~memory[i].vdp_used
    /\ HasMsg(i, "cpu_regs")
    /\ ~HasMsg(i, "vdp_regs")

\* ---------------------------------------------------------------- C6
\* C6: the disassembly of a loaded buffer ends, and the listing holds at
\* most Capacity + 1 records: every record consumed at least one byte of
\* the buffer and the cursor never passes its end.
C6_ListingBounded ==
  \A i \in Invs :
    /\ vec_len(listing[i]) <= Capacity + 1
    /\ vec_len(listing[i]) <= dis[i].pos
    /\ dis[i].pos <= Capacity
    /\ st[i] = "Loaded" => dis[i].pos < Capacity

\* The disassembly of a buffer without two halts in a row has ended with
\* one record per byte.
C6_Witness ==
  \E i \in Invs :
    /\ st[i] = "Disassembled"
    /\ vec_len(listing[i]) = Capacity
    /\ prog[i] = <<Run(0, Capacity)>>

\* ---------------------------------------------------------------- C7
\* C7: after any sequence of write_io and read_io calls the Bus's VDP is
\* in the state of a standalone VDP that received the control writes, data
\* writes and data reads of the ports whose low byte is mapped, the last
\* read_io returned what the standalone VDP returned (0 for every other
\* port), and vdp_used is set exactly when a mapped access happened.
C7_PassThrough ==
  /\ bus.vdp = standalone.vdp
  /\ last_read = standalone.ret
  /\ bus.vdp_used = standalone.touched

\* A register was written through the control port and a byte written to
\* the data port was read back through the Bus.
C7_Witness ==
  /\ ncalls = 4
  /\ bus.vdp.regs[0] = 5
  /\ last_read = 5
  /\ bus.vdp_used

\* ---------------------------------------------------------------- C8
AllHalt(rom) == \A r \in 1..Len(rom) : rom[r].x = HaltOpcode

\* C8: on a buffer of halt bytes only, the loop starts with the CPU at
\* reset and the first instruction is the halt; after it no non-halt
\* instruction has run, A, BC, DE and HL hold their reset value, which is
\* 0 (the value the engine's contract documents: the engine itself is not
\* part of the sources), the memory is as loaded, no port was accessed,
\* vdp_used is false, no image is sent and the command returns Ok.
C8_AllHaltHaltsAtOnce ==
  \A i \in Invs :
    (~pad_overflows(prog[i]) /\ AllHalt(load(prog[i]))) =>
      /\ st[i] = "Running" =>
           /\ cpu[i] = Z80Reset
           /\ read_debug(memory[i], cpu[i].pc) = HaltOpcode
      /\ st[i] \in AfterHalt =>
           /\ steps[i] = 0
           /\ cpu_regs(cpu[i]) = cpu_regs(Z80Reset)
           /\ cpu_regs(cpu[i]) = <<0, 0, 0, 0>>
           /\ memory[i].rom = load(prog[i])
           /\ ~hist[i].io
           /\ ~hist[i].memw
           /\ memory[i].vdp_used = FALSE
           /\ ~HasMsg(i, "image")
           /\ st[i] # "Panicked"
           /\ st[i] = "Done" => res[i] = "Ok"

\* The program 76 76 has returned with the reset registers reported.
C8_Witness ==
  \E i \in Invs :
    /\ prog[i] = Vec(<<HaltOpcode, HaltOpcode>>)
    /\ st[i] = "Done"
    /\ out[i][Len(out[i])].kind = "cpu_regs"
    /\ out[i][Len(out[i])].payload = <<0, 0, 0, 0>>

\* --------------------------------------------------------------- C10
\* C10 as stated: whenever an export step fails, the CPU register text
\* has been sent and the command ends with a reported failure (Ok after a
\* message, or Err), not with a panic.
C10_Original ==
  \A i \in Invs :
    (fail[i] # "none" /\ Ended(i)) =>
      (HasMsg(i, "cpu_regs") /\ res[i] \in {"Ok", "Err"})

\* ---------------------------------------------------------------- C9
\* What one invocation produces when it runs alone, computed as a
\* function of its program and of the export step the environment fails.
AloneFuel == Capacity

RECURSIVE AloneListing(_, _, _, _)
AloneListing(rom, pos, flag, acc) ==
  IF pos >= vec_len(rom) THEN acc
  ELSE LET code == DisasmCode(rom, pos)
           cb == callback(flag, code)
       IN IF cb.stop THEN push(acc, code)
          ELSE AloneListing(rom, pos + Len(code), cb.flag, push(acc, code))

RECURSIVE AloneRun(_, _, _)
AloneRun(b, c, fuel) ==
  LET x == execute_next(b, c) IN
  IF loop_breaks(x.r) \/ fuel = 0 THEN [bus |-> x.bus, cpu |-> x.cpu]
  ELSE AloneRun(x.bus, x.cpu, fuel - 1)

AloneEnd(p) ==
  LET r == AloneRun(BusNew(load(p)), Z80Reset, AloneFuel) IN
  [bus |-> [r.bus EXCEPT !.vdp = VdpUpdate(@)], cpu |-> r.cpu]

AloneOut(p, f) ==
  LET e == AloneEnd(p)
      first == <<Msg("disassembly", AloneListing(load(p), 0, FALSE, <<>>)),
                 Msg("cpu_regs", cpu_regs(e.cpu))>>
      regs == <<Msg("vdp_regs", vdp_regs(e.bus.vdp))>>
      video == <<Msg("text", <<"TMS9918A video output:">>)>>
      nopath == <<Msg("text",
        <<"Failed to get file path of image buffer for emulated TMS9918A">>)>>
  IN IF ~e.bus.vdp_used THEN first
     ELSE CASE f = "tempfile" -> first \o regs
            [] f = "path" -> first \o regs \o nopath
            [] f = "save" -> first \o regs \o video
            [] OTHER -> first \o regs \o video
                          \o <<Msg("image", render(e.bus.vdp))>>

\* The program a command hands to z80_execute.
Handed(i) ==
  IF input[i].cmd = "z80"
  THEN Vec(hex_decode(split_whitespace(input[i].text)))
  ELSE input[i].file

\* Invocation i ended as it does when it runs alone on its program.
AsAlone(i) ==
  /\ Contents(out[i]) = AloneOut(Handed(i), fail[i])
  /\ memory[i] = AloneEnd(Handed(i)).bus
  /\ cpu[i] = AloneEnd(Handed(i)).cpu

\* C9: with two invocations interleaved step by step, each one that is
\* handed a program that fits the buffer ends with the memory buffer, CPU
\* state, VDP state, vdp_used flag and messages it has when run alone on
\* the same program.
C9_Isolated ==
  \A i \in Invs :
    (Ended(i) /\ st[i] # "CmdPanicked" /\ ~pad_overflows(Handed(i))) =>
      AsAlone(i)

\* One invocation, handed LD A,0x10; HALT, has sent its listing and
\* executed an instruction when the load of the other, handed a program
\* longer than the buffer, aborted the process.
C9_Witness ==
  \E i, j \in Invs :
    /\ i # j
    /\ st[i] = "Aborted"
    /\ prog[i] = Vec(<<62, 16, HaltOpcode>>)
    /\ steps[i] = 1
    /\ Len(out[i]) = 1
    /\ st[j] = "Aborted"
    /\ pad_overflows(prog[j])

\* --------------------------------------------------------------- C11
\* C11: disassembly leaves the memory buffer, the CPU and the VDP as the
\* load left them.  However it ended (two halts in a row, a record cut by
\* the end of the buffer with the partial listing kept, or the end of the
\* buffer) the command goes on: it sends the listing and executes, and no
\* command returns without having executed and sent the registers; the
\* only Err it returns is the one of the temporary file.  The execution
\* starts from the reset CPU on the loaded image and follows, step by
\* step, the run of the same program from reset that knows of no listing
\* (hist.ref); the registers sent and the image built are those of that
\* run.
C11_Independent ==
  \A i \in Invs :
    LET ref == hist[i].ref
        final == [ref.bus EXCEPT !.vdp = VdpUpdate(@)]
    IN
    /\ (st[i] \in {"Loaded", "Disassembled", "ListingSent"}
          \/ (st[i] = "Running" /\ ~hist[i].started)) =>
         /\ memory[i] = RefStart(prog[i]).bus
         /\ cpu[i] = RefStart(prog[i]).cpu
    /\ dis[i].ended # "none" =>
         st[i] \in ({"Disassembled", "ListingSent", "Running", "Aborted"}
                     \cup AfterHalt)
    /\ st[i] = "Done" =>
         /\ hist[i].started
         /\ HasMsg(i, "disassembly")
         /\ HasMsg(i, "cpu_regs")
    /\ res[i] = "Err" => fail[i] = "tempfile"
    /\ (st[i] \in {"Running", "Halted"} /\ hist[i].started) =>
         /\ memory[i] = ref.bus
         /\ cpu[i] = ref.cpu
    /\ st[i] \in (AfterHalt \ {"Halted"}) =>
         /\ cpu[i] = ref.cpu
         /\ memory[i] = final
         /\ \E n \in 1..Len(out[i]) :
              /\ out[i][n].kind = "cpu_regs"
              /\ out[i][n].payload = cpu_regs(ref.cpu)
    /\ HasMsg(i, "image") => pixel_buf[i] = render(final.vdp)

\* The disassembly of the program that ends in a cut record has ended at
\* that record with the listing before it kept, and the execution has
\* jumped to the halt and sent the registers.
C11_Witness ==
  \E i \in Invs :
    /\ st[i] = "Done"
    /\ prog[i] = CutRecord
    /\ dis[i].ended = "error"
    /\ vec_len(listing[i]) = Capacity - 3
    /\ steps[i] = 1
    /\ HasMsg(i, "cpu_regs")

\* --------------------------------------------------------------- C12
\* C12: the listing stops at the first pair of consecutive one-byte halt
\* records.  When the closure has stopped the decoder the last two records
\* are both the single byte 0x76 and nothing is decoded after them; two
\* adjacent one-byte halt records occur nowhere else in a listing; the
\* streak flag is set exactly when the last record is the single byte
\* 0x76, so a record of another instruction resets it and a longer record
\* that contains 0x76 does not set it.  (The listing being kept as its
\* runs of equal records, two adjacent halt records are a run of two.)
C12_StopsAtFirstHaltPair ==
  \A i \in Invs :
    LET L == listing[i]
        m == Len(L)
        halts(r) == L[r].x = <<HaltOpcode>>
    IN
    /\ \A r \in 1..m :
         /\ L[r].n >= 1
         /\ r < m => L[r].x # L[r + 1].x
    /\ dis[i].ended = "stop" =>
         /\ m >= 1
         /\ halts(m)
         /\ L[m].n = 2
         /\ st[i] # "Loaded"
    /\ \A r \in 1..m :
         (halts(r) /\ L[r].n >= 2) => (r = m /\ L[r].n = 2)
    /\ (m >= 1 /\ halts(m) /\ L[m].n >= 2) => dis[i].ended = "stop"
    /\ dis[i].flag = (m >= 1 /\ halts(m))
    /\ st[i] = "Loaded" => dis[i].ended = "none"

\* The listing of HALT; LD A,0x76; HALT and its padding has stopped at the
\* pair made of the program's last halt and the first padding byte: the
\* first halt was followed by another instruction, whose operand is 0x76.
C12_Witness ==
  \E i \in Invs :
    /\ st[i] = "Disassembled"
    /\ prog[i] = Vec(<<HaltOpcode, 62, HaltOpcode>>)
    /\ dis[i].ended = "stop"
    /\ dis[i].pos = 5
    /\ listing[i] = Vec(<<(<<HaltOpcode>>), (<<62, HaltOpcode>>),
                          (<<HaltOpcode>>), (<<HaltOpcode>>)>>)

====
